---- MODULE Spec2Model ----
(***************************************************************************)
(* Model of the roquin-iclip analysis helpers:                             *)
(*   lib/gene_enrichment_utils.py : convert_ensembl_id, perform_ora,       *)
(*                                  plot_enrichment_scatter                *)
(*   figure-1/panel_d_bs_4tx_pie_chart.py : the __main__ script            *)
(* Each function is one action applied to inputs drawn by Init.            *)
(* Real numbers (p-values, FDR, ratios) are exact fractions <<num, den>>   *)
(* in lowest terms with den > 0; the rounding of the floats that hold them *)
(* in the program is not modelled.  A call that raises ends in             *)
(* pc = "raised" with nothing returned.                                    *)
(***************************************************************************)
EXTENDS Integers, Sequences, FiniteSets, TLC

VARIABLES
    pc,                 \* "start" | "returned" | "raised"
    \* perform_ora
    study_genes,        \* argument (list)
    gene_sets,          \* argument (dict, in insertion order)
    background_genes,   \* argument (list)
    results,            \* local: the rows appended by the loop
    sf_calls,           \* terms for which scipy.stats.hypergeom.sf was called
    fdrs,               \* local: multipletests' adjusted p-values
    results_df,         \* return value (rows, in order)
    \* convert_ensembl_id
    ensembl_ids,        \* argument (list of strings, each a list of characters)
    ensembl_map,        \* argument (dict)
    ensembl_symbols,    \* return value
    \* plot_enrichment_scatter
    result_df,          \* argument (rows)
    min_study_count,    \* argument
    max_pval,           \* argument: <<>> for None, <<p>> for a value
    top_n,              \* argument: <<>> for None, <<n>> for a value
    data,               \* local: the rows handed to ax.scatter
    \* panel_d_bs_4tx_pie_chart.py
    input_bed,          \* the name column of the file read from --input-bed
    bs,                 \* the series handed to plt.pie: <<label, count>> pairs
    labels              \* the legend: <<label, n>> pairs

oraVars == <<study_genes, gene_sets, background_genes, results, sf_calls,
             fdrs, results_df>>

convertVars == <<ensembl_ids, ensembl_map, ensembl_symbols>>

plotVars == <<result_df, min_study_count, max_pval, top_n, data>>

pieVars == <<input_bed, bs, labels>>

vars == <<pc, oraVars, convertVars, plotVars, pieVars>>

----------------------------------------------------------------------------
(* Bounds of the model *)
MaxBackground == 9
MaxIdLen == 3
MaxCount == 3
MaxPerCategory == 2

----------------------------------------------------------------------------
(* Lists, sets, fractions *)

ToSet(list) == {list[i] : i \in DOMAIN list}

Range(lo, hi) == [i \in 1..(hi - lo + 1) |-> lo + i - 1]

Min2(a, b) == IF a <= b THEN a ELSE b

RECURSIVE Gcd(_, _)
Gcd(a, b) == IF b = 0 THEN a ELSE Gcd(b, a % b)

Frac(num, den) == LET g == Gcd(num, den) IN <<num \div g, den \div g>>

FLeq(x, y) == x[1] * y[2] <= y[1] * x[2]

FLt(x, y) == x[1] * y[2] < y[1] * x[2]

FMin(x, y) == IF FLeq(x, y) THEN x ELSE y

One == <<1, 1>>

RECURSIVE Choose(_, _)
Choose(n, k) ==
    IF k < 0 \/ k > n THEN 0
    ELSE IF k = 0 THEN 1
    ELSE (Choose(n - 1, k - 1) * n) \div k

RECURSIVE SumFrom(_, _, _)
SumFrom(f, lo, hi) == IF lo > hi THEN 0 ELSE f[lo] + SumFrom(f, lo + 1, hi)

----------------------------------------------------------------------------
(* perform_ora *)

\* scipy.stats.hypergeom.sf(q, M, n, N): P(X > q) for population M with
\* n success states and N draws, the sum of the pmf over q+1 .. N.
HypergeomSf(q, popM, succ, draws) ==
    LET pmf == [i \in 0..draws |->
                   Choose(succ, i) * Choose(popM - succ, draws - i)]
    IN  Frac(SumFrom(pmf, IF q + 1 < 0 THEN 0 ELSE q + 1, draws),
             Choose(popM, draws))

\* mutant: the term is not restricted to the background
TermGenes_NoBackground(genes, background) == ToSet(genes)

\* term_genes = set(genes) & background_genes
TermGenes(genes, background) == ToSet(genes) \cap background

\* mutant: the study set is left out of the intersection
StudyHits_TermSize(study, term_genes) == Cardinality(term_genes)

\* k = len(study_genes & term_genes)
StudyHits(study, term_genes) == Cardinality(study \cap term_genes)

\* mutant: no K == 0 guard, the distribution is always evaluated
CallsSf_Always(K) == TRUE

\* if K == 0: p_value = 1.0 else: hypergeom.sf(k - 1, N, K, n)
CallsSf(K) == K # 0

PValue(k, K, n, N) == IF ~CallsSf(K) THEN One ELSE HypergeomSf(k - 1, N, K, n)

\* mutant: the "term" entry holds a literal instead of the loop's term
ResultRow_TermLiteral(term, genes, study, background) ==
    LET term_genes == TermGenes(genes, background)
        n == Cardinality(study \cap background)
        N == Cardinality(background)
        K == Cardinality(term_genes)
        k == StudyHits(study, term_genes)
    IN  [term |-> "term", k |-> k, K |-> K, n |-> n, N |-> N,
         p_value |-> PValue(k, K, n, N),
         study_genes |-> study \cap term_genes]

\* the dict appended to results for one (term, genes) item
ResultRow(term, genes, study, background) ==
    LET term_genes == TermGenes(genes, background)
        n == Cardinality(study \cap background)
        N == Cardinality(background)
        K == Cardinality(term_genes)
        k == StudyHits(study, term_genes)
    IN  [term |-> term, k |-> k, K |-> K, n |-> n, N |-> N,
         p_value |-> PValue(k, K, n, N),
         study_genes |-> study \cap term_genes]

\* mutant: the sorted p-values are multiplied by rank/m instead of divided
MultipleTestsBH_InvertedFactor(pvals) ==
    LET m == Len(pvals)
        sorted == SortSeq(pvals, FLt)
        raw == [r \in 1..m |-> Frac(sorted[r][1] * r, sorted[r][2] * m)]
        RECURSIVE Acc(_)
        Acc(r) == IF r = m THEN raw[m] ELSE FMin(raw[r], Acc(r + 1))
        corrected == [r \in 1..m |-> FMin(Acc(r), One)]
    IN  [i \in 1..m |-> corrected[CHOOSE r \in 1..m : sorted[r] = pvals[i]]]

\* statsmodels multipletests(pvals, method='fdr_bh')[1]: sort ascending,
\* divide by rank/m, running minimum from the largest down, cap at 1, unsort.
MultipleTestsBH(pvals) ==
    LET m == Len(pvals)
        sorted == SortSeq(pvals, FLt)
        raw == [r \in 1..m |-> Frac(sorted[r][1] * m, sorted[r][2] * r)]
        RECURSIVE Acc(_)
        Acc(r) == IF r = m THEN raw[m] ELSE FMin(raw[r], Acc(r + 1))
        corrected == [r \in 1..m |-> FMin(Acc(r), One)]
    IN  [i \in 1..m |-> corrected[CHOOSE r \in 1..m : sorted[r] = pvals[i]]]

\* mutant: the threshold is applied to the raw p-value
Significant_OnPValue(row) == FLeq(row.p_value, <<1, 20>>)

\* results_df[results_df['FDR'] <= 0.05]
Significant(row) == FLeq(row.FDR, <<1, 20>>)

\* the orders DataFrame.sort_values may leave rows with these keys in
\* (kind='quicksort': the order of rows with equal keys is not fixed)
AscendingOrders(keys) ==
    {o \in [1..Len(keys) -> 1..Len(keys)] :
        /\ \A i, j \in 1..Len(keys) : i # j => o[i] # o[j]
        /\ \A i \in 1..(Len(keys) - 1) : FLeq(keys[o[i]], keys[o[i + 1]])}

\* results_df.sort_values(by='FDR')
SortedOrders(rows) == AscendingOrders([i \in 1..Len(rows) |-> rows[i].FDR])

\* the columns of the returned table
OutRow(row) ==
    [term |-> row.term, study_count |-> row.k, background_count |-> row.K,
     p_value |-> row.p_value, FDR |-> row.FDR, study_genes |-> row.study_genes]

perform_ora ==
    /\ pc = "start"
    /\ \E rows \in {[i \in 1..Len(gene_sets) |->
                       ResultRow(gene_sets[i].term, gene_sets[i].genes,
                                 ToSet(study_genes), ToSet(background_genes))]} :
           /\ results' = rows
           /\ sf_calls' = {rows[i].term : i \in {j \in 1..Len(rows) : CallsSf(rows[j].K)}}
           /\ IF rows = <<>>
              THEN \* pd.DataFrame([]) has no 'p_value' column: KeyError
                   /\ pc' = "raised"
                   /\ fdrs' = <<>>
                   /\ results_df' = <<>>
              ELSE \E adj \in {MultipleTestsBH([i \in 1..Len(rows) |-> rows[i].p_value])} :
                   \E df \in {[i \in 1..Len(rows) |->
                                 [term |-> rows[i].term, k |-> rows[i].k,
                                  K |-> rows[i].K, p_value |-> rows[i].p_value,
                                  FDR |-> adj[i],
                                  study_genes |-> rows[i].study_genes]]} :
                       /\ fdrs' = adj
                       /\ pc' = "returned"
                       /\ \E o \in SortedOrders(df) :
                            LET sorted_df == [i \in 1..Len(df) |-> df[o[i]]]
                                kept == SelectSeq(sorted_df, Significant)
                            IN  results_df' = [i \in 1..Len(kept) |-> OutRow(kept[i])]
    /\ UNCHANGED <<study_genes, gene_sets, background_genes>>
    /\ UNCHANGED <<convertVars, plotVars, pieVars>>

----------------------------------------------------------------------------
(* convert_ensembl_id *)

\* mutant: the identifier is cut at its last "." (rsplit) instead of its first
RECURSIVE SplitFirst_AtLast(_, _)
SplitFirst_AtLast(s, sep) ==
    IF s = <<>> THEN <<>>
    ELSE IF s[Len(s)] = sep THEN SubSeq(s, 1, Len(s) - 1)
    ELSE IF \E i \in DOMAIN s : s[i] = sep
         THEN SplitFirst_AtLast(SubSeq(s, 1, Len(s) - 1), sep)
    ELSE s

\* s.split(sep)[0]: the characters before the first sep, all of s without one
RECURSIVE SplitFirst(_, _)
SplitFirst(s, sep) ==
    IF s = <<>> \/ Head(s) = sep THEN <<>>
    ELSE <<Head(s)>> \o SplitFirst(Tail(s), sep)

\* [ensembl_map[ens_id] for ens_id in ids if ens_id in ensembl_map]
RECURSIVE MapKnown(_, _)
MapKnown(ids, map) ==
    IF ids = <<>> THEN <<>>
    ELSE (IF Head(ids) \in DOMAIN map THEN <<map[Head(ids)]>> ELSE <<>>)
             \o MapKnown(Tail(ids), map)

convert_ensembl_id ==
    /\ pc = "start"
    /\ \E stripped \in {[i \in 1..Len(ensembl_ids) |-> SplitFirst(ensembl_ids[i], ".")]} :
           ensembl_symbols' = MapKnown(stripped, ensembl_map)
    /\ pc' = "returned"
    /\ UNCHANGED <<ensembl_ids, ensembl_map>>
    /\ UNCHANGED <<oraVars, plotVars, pieVars>>

----------------------------------------------------------------------------
(* plot_enrichment_scatter, with the caller's column names bound to the    *)
(* row fields name, study_count, background_count and pvalue               *)

\* data[x_column] >= min_study_count
HasStudyCount(row, min_count) == row.study_count >= min_count

\* max_pval is None or data[pvalue_column] <= max_pval
WithinMaxPval(row, maxp) == maxp = <<>> \/ FLeq(row.pvalue, maxp[1])

\* data[x_column] / data[bg_count_column]
RatioInStudy(row) == Frac(row.study_count, row.background_count)

\* DataFrame.head(n)
DfHead(rows, n) ==
    IF n >= 0 THEN SubSeq(rows, 1, Min2(n, Len(rows)))
    ELSE SubSeq(rows, 1, Len(rows) + n)

\* "if top_n:" is false for None and for 0
TopNGiven(n) == n # <<>> /\ n[1] # 0

plot_enrichment_scatter ==
    /\ pc = "start"
    /\ \E filtered \in {SelectSeq(result_df,
                           LAMBDA row : /\ HasStudyCount(row, min_study_count)
                                        /\ WithinMaxPval(row, max_pval))} :
       \E o \in AscendingOrders([i \in 1..Len(filtered) |-> RatioInStudy(filtered[i])]) :
           LET sorted == [i \in 1..Len(filtered) |-> filtered[o[i]]]
           IN  data' = IF TopNGiven(top_n) THEN DfHead(sorted, top_n[1]) ELSE sorted
    /\ pc' = "returned"
    /\ UNCHANGED <<result_df, min_study_count, max_pval, top_n>>
    /\ UNCHANGED <<oraVars, convertVars, pieVars>>

----------------------------------------------------------------------------
(* panel_d_bs_4tx_pie_chart.py.  A name is the list of its pieces, ";" a   *)
(* piece of its own; an index label is such a list too.                    *)

\* the region categories a file may hold, in the order of Python's str "<"
CategoryOrder ==
    <<"CDS", "exon", "five_prime_utr", "intron", "ncRNA", "start_codon",
      "stop_codon", "three_prime_utr">>

\* bs['name'].apply(lambda x: x.split(";")[0])
TxRegion(name) == SplitFirst(name, ";")

\* bs.groupby("tx_region")['chr'].count(): the groups in sorted key order
GroupCount(regions) ==
    LET count(c) == Cardinality({i \in DOMAIN regions : regions[i] = <<c>>})
        all == [r \in 1..Len(CategoryOrder) |->
                   <<<<CategoryOrder[r]>>, count(CategoryOrder[r])>>]
    IN  SelectSeq(all, LAMBDA e : e[2] > 0)

Index(series) == {series[i][1] : i \in DOMAIN series}

Dropped == {<<"exon">>, <<"start_codon">>, <<"stop_codon">>}

renamed_columns == << <<"CDS">>, <<"5'UTR">>, <<"Intron">>, <<"3'UTR">> >>

\* bs.rename(index=dict(zip(bs.index, renamed_columns)))
RenameByPosition(series) ==
    [i \in 1..Len(series) |->
        IF i <= Len(renamed_columns) THEN <<renamed_columns[i], series[i][2]>>
        ELSE series[i]]

\* bs[label]
Lookup(series, label) == series[CHOOSE i \in DOMAIN series : series[i][1] = label][2]

pie_chart_main ==
    /\ pc = "start"
    /\ \E grouped \in {GroupCount([i \in 1..Len(input_bed) |-> TxRegion(input_bed[i])])} :
         IF ~(Dropped \subseteq Index(grouped))
         THEN \* Series.drop raises KeyError for a label not in the index
              /\ pc' = "raised"
              /\ bs' = <<>>
              /\ labels' = <<>>
         ELSE \E renamed \in {RenameByPosition(
                                SelectSeq(grouped, LAMBDA e : e[1] \notin Dropped))} :
                IF \E i \in DOMAIN renamed_columns :
                       renamed_columns[i] \notin Index(renamed)
                THEN \* bs[label] raises KeyError
                     /\ pc' = "raised"
                     /\ bs' = <<>>
                     /\ labels' = <<>>
                ELSE /\ pc' = "returned"
                     /\ bs' = renamed
                     /\ labels' = [i \in 1..Len(renamed_columns) |->
                                      <<renamed_columns[i],
                                        Lookup(renamed, renamed_columns[i])>>]
    /\ UNCHANGED input_bed
    /\ UNCHANGED <<oraVars, convertVars, plotVars>>

----------------------------------------------------------------------------
(* Inputs of perform_ora: interval lists over genes 1..NumGenes, the last *)
(* gene never in the background; one list of each argument repeats a gene; *)
(* and the docstring's example.                                            *)

NumGenes == MaxBackground + 1

Intervals == {Range(lo, hi) : lo \in 1..NumGenes, hi \in 0..NumGenes}

BackgroundLists == {Range(1, b) : b \in 0..MaxBackground} \cup {<<1, 2, 1>>}

StudyLists ==
    {Range(1, s) : s \in 0..NumGenes} \cup {Range(s, NumGenes) : s \in 1..NumGenes}
        \cup {<<2, 1, 2>>}

TermNames == <<"A", "B">>

GeneSetDicts ==
    UNION {{[i \in 1..m |-> [term |-> TermNames[i], genes |-> g[i]]] :
               g \in [1..m -> Intervals]} : m \in 0..Len(TermNames)}

ExampleStudy == <<1, 3, 5, 7>>

ExampleBackground == Range(1, 10)

ExampleGeneSets ==
    << [term |-> "A", genes |-> <<1, 2, 3>>],
       [term |-> "B", genes |-> <<3, 4, 6>>],
       [term |-> "C", genes |-> <<7, 8, 9, 10>>],
       [term |-> "D", genes |-> <<2, 5, 8>>] >>

OraInputs ==
    (StudyLists \X GeneSetDicts \X BackgroundLists)
        \cup {<<ExampleStudy, ExampleGeneSets, ExampleBackground>>}

IdleOra ==
    /\ study_genes = <<>>
    /\ gene_sets = <<>>
    /\ background_genes = <<>>
    /\ results = <<>>
    /\ sf_calls = {}
    /\ fdrs = <<>>
    /\ results_df = <<>>

IdleConvert ==
    /\ ensembl_ids = <<>>
    /\ ensembl_map = <<>>
    /\ ensembl_symbols = <<>>

IdlePlot ==
    /\ result_df = <<>>
    /\ min_study_count = 1
    /\ max_pval = <<>>
    /\ top_n = <<>>
    /\ data = <<>>

IdlePie ==
    /\ input_bed = <<>>
    /\ bs = <<>>
    /\ labels = <<>>

InitOra ==
    /\ pc = "start"
    /\ \E inp \in OraInputs :
           /\ study_genes = inp[1]
           /\ gene_sets = inp[2]
           /\ background_genes = inp[3]
    /\ results = <<>>
    /\ sf_calls = {}
    /\ fdrs = <<>>
    /\ results_df = <<>>
    /\ IdleConvert /\ IdlePlot /\ IdlePie

NextOra == perform_ora

SpecOra == InitOra /\ [][NextOra]_vars

----------------------------------------------------------------------------
(* Inputs of convert_ensembl_id *)

Chars == {"a", "b", "."}

RECURSIVE StringsUpTo(_)
StringsUpTo(n) ==
    IF n = 0 THEN {<<>>}
    ELSE LET shorter == StringsUpTo(n - 1)
         IN  shorter \cup {Append(w, c) : w \in shorter, c \in Chars}

Identifiers == StringsUpTo(MaxIdLen)

IdLists == {<<>>} \cup {<<x>> : x \in Identifiers}
               \cup {<<x, y>> : x \in Identifiers, y \in Identifiers}

MapKeys == {<<"a">>, <<"b">>, <<"a", ".">>}

MapValues == {"TP53", "MYC"}

Dicts == UNION {[keys -> MapValues] : keys \in SUBSET MapKeys}

ExampleIds ==
    << <<"E", "N", "S", "G", "0", "0", "1", ".", "3">>,
       <<"E", "N", "S", "G", "0", "0", "2">> >>

ExampleMap == [key \in {<<"E", "N", "S", "G", "0", "0", "1">>} |-> "TP53"]

ConvertInputs == (IdLists \X Dicts) \cup {<<ExampleIds, ExampleMap>>}

InitConvert ==
    /\ pc = "start"
    /\ \E inp \in ConvertInputs :
           /\ ensembl_ids = inp[1]
           /\ ensembl_map = inp[2]
    /\ ensembl_symbols = <<>>
    /\ IdleOra /\ IdlePlot /\ IdlePie

NextConvert == convert_ensembl_id

SpecConvert == InitConvert /\ [][NextConvert]_vars

----------------------------------------------------------------------------
(* Inputs of plot_enrichment_scatter: tables of up to three rows with      *)
(* 0 <= study_count <= background_count, as perform_ora's rows have        *)

PlotNames == <<"T1", "T2", "T3">>

PlotPvals == {<<1, 100>>, <<1, 10>>}

PlotCells ==
    {<<sc, bc, p>> : sc \in 0..MaxCount, bc \in 1..MaxCount, p \in PlotPvals}

PlotTables ==
    UNION {{[i \in 1..m |-> [name |-> PlotNames[i], study_count |-> c[i][1],
                             background_count |-> c[i][2], pvalue |-> c[i][3]]] :
               c \in [1..m -> {x \in PlotCells : x[1] <= x[2]}]} :
           m \in 0..Len(PlotNames)}

InitPlot ==
    /\ pc = "start"
    /\ result_df \in PlotTables
    /\ min_study_count \in {1, 2}
    /\ max_pval \in {<<>>, << <<1, 20>> >>}
    /\ top_n \in {<<>>, <<0>>, <<1>>, <<2>>}
    /\ data = <<>>
    /\ IdleOra /\ IdleConvert /\ IdlePie

NextPlot == plot_enrichment_scatter

SpecPlot == InitPlot /\ [][NextPlot]_vars

----------------------------------------------------------------------------
(* Inputs of the pie-chart script: every file with up to MaxPerCategory    *)
(* rows of each category, the rows in reverse category order; not the      *)
(* empty file, which pd.read_csv itself refuses                            *)

RECURSIVE Repeat(_, _)
Repeat(x, n) == IF n = 0 THEN <<>> ELSE <<x>> \o Repeat(x, n - 1)

RECURSIVE RowsFrom(_, _)
RowsFrom(counts, r) ==
    IF r = 0 THEN <<>>
    ELSE Repeat(<<CategoryOrder[r], ";", "x">>, counts[r]) \o RowsFrom(counts, r - 1)

BedFiles ==
    {RowsFrom(counts, Len(CategoryOrder)) :
        counts \in [1..Len(CategoryOrder) -> 0..MaxPerCategory]} \ {<<>>}

InitPie ==
    /\ pc = "start"
    /\ input_bed \in BedFiles
    /\ bs = <<>>
    /\ labels = <<>>
    /\ IdleOra /\ IdleConvert /\ IdlePlot

NextPie == pie_chart_main

SpecPie == InitPie /\ [][NextPie]_vars

----------------------------------------------------------------------------
(* Properties of perform_ora (checked under SpecOra) *)

Alpha == <<1, 20>>

InputTerms == {gene_sets[i].term : i \in DOMAIN gene_sets}

RetainedTerms == {results_df[i].term : i \in DOMAIN results_df}

IsExample ==
    /\ study_genes = ExampleStudy
    /\ gene_sets = ExampleGeneSets
    /\ background_genes = ExampleBackground

RowOf(term) == results[CHOOSE i \in DOMAIN results : results[i].term = term]

\* C1: for every term the counts the loop derives are n = |study & background|,
\* N = |background|, K = |term & background|, k = |study & term & background|,
\* and they satisfy 0 <= k <= min(n, K), 0 <= K <= N and 0 <= n <= N.
C1_CountsBounded ==
    \A i \in DOMAIN results :
        LET r == results[i]
            study == ToSet(study_genes)
            background == ToSet(background_genes)
            term == ToSet(gene_sets[i].genes)
        IN  /\ r.n = Cardinality(study \cap background)
            /\ r.N = Cardinality(background)
            /\ r.K = Cardinality(term \cap background)
            /\ r.k = Cardinality(study \cap term \cap background)
            /\ 0 <= r.k /\ r.k <= Min2(r.n, r.K)
            /\ 0 <= r.K /\ r.K <= r.N
            /\ 0 <= r.n /\ r.n <= r.N

\* a term with genes outside the background and 0 < k < K < N, k < n < N
C1_Witness ==
    /\ pc = "returned"
    /\ \E i \in DOMAIN results :
           /\ ~(ToSet(gene_sets[i].genes) \subseteq ToSet(background_genes))
           /\ 0 < results[i].k /\ results[i].k < results[i].K
           /\ results[i].K < results[i].N
           /\ results[i].k < results[i].n /\ results[i].n < results[i].N

\* C2: the returned table holds exactly the input terms whose adjusted value
\* (FDR) is <= 0.05, each once; all rows when every FDR is <= 0.05, and none
\* when every p_value is 1.0.
C2_ExactlySignificant ==
    pc = "returned" =>
        /\ RetainedTerms =
               {results[i].term : i \in {j \in DOMAIN results : FLeq(fdrs[j], Alpha)}}
        /\ Len(results_df) = Cardinality(RetainedTerms)
        /\ (\A j \in DOMAIN results : FLeq(fdrs[j], Alpha))
               => Len(results_df) = Len(results)
        /\ (\A j \in DOMAIN results : results[j].p_value = One)
               => results_df = <<>>

\* a call that keeps one of two terms and drops the other
C2_Witness ==
    /\ pc = "returned"
    /\ Len(results) = 2
    /\ Len(results_df) = 1

\* C3: called with no terms, perform_ora returns an empty table rather than
\* failing (the statement as claimed; the code raises).
C3_NoTermsEmptyTable ==
    (pc # "start" /\ gene_sets = <<>>) => (pc = "returned" /\ results_df = <<>>)

ExampleCounts ==
    /\ RowOf("A").k = 2 /\ RowOf("A").K = 3
    /\ RowOf("A").n = 4 /\ RowOf("A").N = 10
    /\ RowOf("C").k = 1 /\ RowOf("C").K = 4

\* C4 as claimed: on the docstring's example the counts are k=2, K=3, n=4, N=10
\* for A and k=1, K=4 for C, A has the smallest p-value of the four terms and
\* D the largest.
C4_ExampleRanksDLast ==
    (pc = "returned" /\ IsExample) =>
        /\ ExampleCounts
        /\ \A t \in {"B", "C", "D"} : FLt(RowOf("A").p_value, RowOf(t).p_value)
        /\ \A t \in {"A", "B", "C"} : FLeq(RowOf(t).p_value, RowOf("D").p_value)

\* C4 amended: on the docstring's example the counts are k=2, K=3, n=4, N=10
\* for A and k=1, K=4 for C, A has the smallest p-value of the four terms
\* (1/3) and C, not D, the largest (13/14); B and D tie at 5/6.
C4_ExampleRanksCLast ==
    (pc = "returned" /\ IsExample) =>
        /\ ExampleCounts
        /\ \A t \in {"B", "C", "D"} : FLt(RowOf("A").p_value, RowOf(t).p_value)
        /\ \A t \in {"A", "B", "D"} : FLt(RowOf(t).p_value, RowOf("C").p_value)
        /\ RowOf("A").p_value = <<1, 3>>
        /\ RowOf("B").p_value = <<5, 6>>
        /\ RowOf("C").p_value = <<13, 14>>
        /\ RowOf("D").p_value = <<5, 6>>

\* the example has been run
C4_Witness == pc = "returned" /\ IsExample /\ Len(results) = 4

\* C5 as claimed: the terms of the returned table are a strict subset of the
\* input terms.
C5_StrictSubset ==
    pc = "returned" =>
        (RetainedTerms \subseteq InputTerms /\ RetainedTerms # InputTerms)

\* C5 amended: the terms of the returned table are a subset of the input
\* terms, not always a strict one (when every term is significant the two
\* sets are equal).
C5_Subset == RetainedTerms \subseteq InputTerms

\* a call whose two terms are both retained
C5_Witness ==
    /\ pc = "returned"
    /\ Len(gene_sets) = 2
    /\ RetainedTerms = InputTerms

\* C6: a non-empty term with no gene in the background gets p_value 1.0, the
\* hypergeometric distribution is not evaluated for it, and it is not in the
\* returned table.
C6_AbsentTermExcluded ==
    pc # "start" =>
        \A i \in DOMAIN results :
            (/\ gene_sets[i].genes # <<>>
             /\ ToSet(gene_sets[i].genes) \cap ToSet(background_genes) = {})
                => /\ results[i].p_value = One
                   /\ results[i].term \notin sf_calls
                   /\ results[i].term \notin RetainedTerms

\* a term absent from the background is dropped while the other term is kept
C6_Witness ==
    /\ pc = "returned"
    /\ results_df # <<>>
    /\ \E i \in DOMAIN results :
           /\ gene_sets[i].genes # <<>>
           /\ ToSet(gene_sets[i].genes) \cap ToSet(background_genes) = {}

\* C7: in the returned table every row's FDR is >= its p_value and the rows
\* are in ascending order of FDR.
C7_FdrAboveRawAscending ==
    pc = "returned" =>
        /\ \A i \in DOMAIN results_df : FLeq(results_df[i].p_value, results_df[i].FDR)
        /\ \A i \in DOMAIN results_df : \A j \in DOMAIN results_df :
               i < j => FLeq(results_df[i].FDR, results_df[j].FDR)

\* two rows returned with different FDR, given in the other order, the
\* first with FDR above its p_value
C7_Witness ==
    /\ pc = "returned"
    /\ Len(results_df) = 2
    /\ FLt(results_df[1].FDR, results_df[2].FDR)
    /\ FLt(results_df[1].p_value, results_df[1].FDR)
    /\ results_df[1].term = "B"

----------------------------------------------------------------------------
(* Properties of convert_ensembl_id (checked under SpecConvert) *)

\* t is s cut at its first "."
IsTruncation(s, t) ==
    /\ Len(t) <= Len(s)
    /\ \A i \in 1..Len(t) : t[i] = s[i] /\ t[i] # "."
    /\ (Len(t) = Len(s) \/ s[Len(t) + 1] = ".")

MappedPositions ==
    {i \in DOMAIN ensembl_ids :
        \E key \in DOMAIN ensembl_map : IsTruncation(ensembl_ids[i], key)}

\* C8: the result lists, in input order and with repeats, the mapped value of
\* each identifier whose text before its first "." is a key of the mapping;
\* the others are dropped; ["ENSG001.3","ENSG002"] with {"ENSG001":"TP53"}
\* gives ["TP53"].
C8_MapsTruncatedInOrder ==
    pc = "returned" =>
        /\ Len(ensembl_symbols) = Cardinality(MappedPositions)
        /\ \A i \in MappedPositions :
               LET rank == Cardinality({j \in MappedPositions : j <= i})
                   key == CHOOSE k \in DOMAIN ensembl_map :
                              IsTruncation(ensembl_ids[i], k)
               IN  ensembl_symbols[rank] = ensembl_map[key]
        /\ (ensembl_ids = ExampleIds /\ ensembl_map = ExampleMap)
               => ensembl_symbols = <<"TP53">>

\* an identifier with no mapping is dropped before one that is cut at the
\* first of its two "." and mapped
C8_Witness ==
    /\ pc = "returned"
    /\ Len(ensembl_ids) = 2
    /\ MappedPositions = {2}
    /\ \E i \in 1..(Len(ensembl_ids[2]) - 1) :
           ensembl_ids[2][i] = "." /\ ensembl_ids[2][i + 1] = "."
    /\ Len(ensembl_symbols) = 1

----------------------------------------------------------------------------
(* Properties of plot_enrichment_scatter (checked under SpecPlot) *)

PassesFilters ==
    {i \in DOMAIN result_df :
        /\ result_df[i].study_count >= min_study_count
        /\ (max_pval = <<>> \/ FLeq(result_df[i].pvalue, max_pval[1]))}

Plotted == {i \in DOMAIN result_df : \E j \in DOMAIN data : data[j] = result_df[i]}

\* C9: given top_n, the plotted terms are the top_n terms with the highest
\* ratio of study hits to background hits among the rows that pass the
\* filters (the statement as claimed; the code keeps the lowest ratios).
C9_TopNHighestRatio ==
    (pc = "returned" /\ top_n # <<>> /\ top_n[1] > 0) =>
        /\ Len(data) = Min2(top_n[1], Cardinality(PassesFilters))
        /\ Plotted \subseteq PassesFilters
        /\ \A i \in Plotted : \A j \in PassesFilters \ Plotted :
               FLeq(RatioInStudy(result_df[j]), RatioInStudy(result_df[i]))

----------------------------------------------------------------------------
(* Properties of the pie-chart script (checked under SpecPie) *)

RowsOfRegion(region) ==
    Cardinality({i \in DOMAIN input_bed : TxRegion(input_bed[i]) = region})

RECURSIVE SumCounts(_)
SumCounts(series) ==
    IF series = <<>> THEN 0 ELSE Head(series)[2] + SumCounts(Tail(series))

\* the category each legend label names
NamedCategory(label) ==
    CASE label = <<"CDS">> -> <<"CDS">>
      [] label = <<"5'UTR">> -> <<"five_prime_utr">>
      [] label = <<"Intron">> -> <<"intron">>
      [] label = <<"3'UTR">> -> <<"three_prime_utr">>

\* C10: for any feature file the rows of category exon, start_codon or
\* stop_codon are left out of the final counts, and each legend label shows
\* the count of the retained category it names (the statement as claimed; the
\* script raises when one of the three is missing, and names by position).
C10_ExcludedAndLabelled ==
    pc # "start" =>
        /\ pc = "returned"
        /\ SumCounts(bs) =
               Cardinality({i \in DOMAIN input_bed : TxRegion(input_bed[i]) \notin Dropped})
        /\ \A i \in DOMAIN labels :
               labels[i][2] = RowsOfRegion(NamedCategory(labels[i][1]))

====
